---- MODULE Spec2Model ----
(***************************************************************************)
(* Model of src/models/llm.py: the LLMModel adapter.                       *)
(*                                                                         *)
(* State: the module-level LLM_CONFIG table, the adapter object the caller *)
(* holds (model_type, config, api_key, model), the number of client        *)
(* objects the two collaborator constructors have built so far (object     *)
(* identity), the response text the caller holds (`response`), and the     *)
(* caller's view of the most recent call (`last`).                         *)
(* Texts are sequences of Unicode code points; bytes are 0..255.           *)
(***************************************************************************)
EXTENDS Integers, Sequences, FiniteSets, TLC

VARIABLES LLM_CONFIG, adapter, allocated, response, last

vars == <<LLM_CONFIG, adapter, allocated, response, last>>

(***************************************************************************)
(* Bounds of the model.                                                    *)
(***************************************************************************)
\* longest response text given to process_response
MaxLen == 3
\* most client objects the collaborator constructors build in one run
MaxHandles == 4
\* longest response text the caller holds while it drives the adapter
SampleLen == 1

(***************************************************************************)
(* Values.                                                                 *)
(***************************************************************************)
\* Python's None, as a credential
None == "None"

Keys == {"key1", "key2"}

\* api_key: Optional[str]
Credentials == Keys \cup {None}

\* model_type arguments a caller may pass; "gemini" is in neither branch
ModelTypes == {"gpt4", "claude", "gemini"}

\* code points: 'a', 'e' acute (2 bytes), '-', '?', EN DASH and EM DASH
\* (3 bytes each), a lone surrogate (no UTF-8 encoding), U+FFFD and an
\* emoji (4 bytes)
HYPHEN == 45
QUESTION_MARK == 63
EN_DASH == 8211
EM_DASH == 8212

Alphabet == {97, 233, HYPHEN, QUESTION_MARK, EN_DASH, EM_DASH, 55296,
             65533, 128512}

RECURSIVE TextsOfLen(_)
TextsOfLen(n) ==
    IF n = 0 THEN {<<>>}
    ELSE {Append(t, c) : t \in TextsOfLen(n - 1), c \in Alphabet}

\* the texts of at most n characters
Texts(n) == UNION {TextsOfLen(k) : k \in 0..n}

(***************************************************************************)
(* settings.LLM_CONFIG: one record per provider identifier.                *)
(***************************************************************************)
ConfigRecord(model_type) ==
    CASE model_type = "gpt4" ->
           [model_name |-> "gpt4-model-name", temperature |-> 0, max_tokens |-> 4096]
      [] model_type = "claude" ->
           [model_name |-> "claude-model-name", temperature |-> 1, max_tokens |-> 8192]
      [] OTHER ->
           [model_name |-> "other-model-name", temperature |-> 2, max_tokens |-> 1024]

\* the table as the settings module ships it: keys "gpt4" and "claude"
SettingsConfig == [m \in {"gpt4", "claude"} |-> ConfigRecord(m)]

\* every table over the model types a caller may name
InjectedConfigs == {[m \in K |-> ConfigRecord(m)] : K \in SUBSET ModelTypes}

NoConfig == [model_name |-> "", temperature |-> 0, max_tokens |-> 0]

(***************************************************************************)
(* Client handles: what a collaborator constructor returns.                *)
(***************************************************************************)
NoModel ==
    [id |-> 0, class |-> "", model_name |-> "", temperature |-> 0,
     max_tokens |-> 0, api_key |-> None, timeout |-> 0]

\* ChatOpenAI(model_name=, temperature=, max_tokens=, api_key=, request_timeout=)
ChatOpenAI(id, model_name, temperature, max_tokens, api_key, request_timeout) ==
    [id |-> id, class |-> "ChatOpenAI", model_name |-> model_name,
     temperature |-> temperature, max_tokens |-> max_tokens,
     api_key |-> api_key, timeout |-> request_timeout]

\* ChatAnthropic(model_name=, temperature=, max_tokens=, anthropic_api_key=, timeout=)
ChatAnthropic(id, model_name, temperature, max_tokens, anthropic_api_key, timeout) ==
    [id |-> id, class |-> "ChatAnthropic", model_name |-> model_name,
     temperature |-> temperature, max_tokens |-> max_tokens,
     api_key |-> anthropic_api_key, timeout |-> timeout]

\* request_timeout = 600.0
request_timeout == 600

OK == "OK"

(***************************************************************************)
(* Faulty variants of _initialize_model, used to test the properties.      *)
(***************************************************************************)
\* the "claude" branch copied from the "gpt4" branch with the class left as is
_initialize_model_copied_branch(model_type, config, api_key, id, raises) ==
    IF model_type = "gpt4" \/ model_type = "claude" THEN
        IF raises THEN [err |-> "CollaboratorError", model |-> NoModel]
        ELSE [err |-> OK,
              model |-> ChatOpenAI(id, config.model_name, config.temperature,
                                   config.max_tokens, api_key, request_timeout)]
    ELSE [err |-> "ValueError", model |-> NoModel]

\* the "claude" branch missing
_initialize_model_no_claude_branch(model_type, config, api_key, id, raises) ==
    IF model_type = "gpt4" THEN
        IF raises THEN [err |-> "CollaboratorError", model |-> NoModel]
        ELSE [err |-> OK,
              model |-> ChatOpenAI(id, config.model_name, config.temperature,
                                   config.max_tokens, api_key, request_timeout)]
    ELSE [err |-> "ValueError", model |-> NoModel]

(***************************************************************************)
(* LLMModel._initialize_model.  `id` is the identity of the object the     *)
(* collaborator constructor would return, `raises` whether that            *)
(* constructor raises instead of returning.                                *)
(***************************************************************************)
_initialize_model(model_type, config, api_key, id, raises) ==
    IF model_type = "gpt4" THEN
        IF raises THEN [err |-> "CollaboratorError", model |-> NoModel]
        ELSE [err |-> OK,
              model |-> ChatOpenAI(id, config.model_name, config.temperature,
                                   config.max_tokens, api_key, request_timeout)]
    ELSE IF model_type = "claude" THEN
        IF raises THEN [err |-> "CollaboratorError", model |-> NoModel]
        ELSE [err |-> OK,
              model |-> ChatAnthropic(id, config.model_name, config.temperature,
                                      config.max_tokens, api_key, request_timeout)]
    ELSE [err |-> "ValueError", model |-> NoModel]

(***************************************************************************)
(* The adapter object.                                                     *)
(***************************************************************************)
NoAdapter ==
    [exists |-> FALSE, model_type |-> "", config |-> NoConfig,
     api_key |-> None, model |-> NoModel]

\* LLMModel.__init__: the object the caller gets, or the error raised.
\* `resolved` tells whether LLM_CONFIG[model_type] was found.
__init__(table, model_type, api_key, id, raises) ==
    IF model_type \notin DOMAIN table
    THEN [err |-> "KeyError", resolved |-> FALSE, self |-> NoAdapter]
    ELSE LET r == _initialize_model(model_type, table[model_type], api_key, id, raises)
         IN  [err |-> r.err, resolved |-> TRUE,
              self |-> IF r.err = OK
                       THEN [exists |-> TRUE, model_type |-> model_type,
                             config |-> table[model_type], api_key |-> api_key,
                             model |-> r.model]
                       ELSE NoAdapter]

\* faulty variant: get_model builds a client anew on each call
get_model_rebuilding(self) == [self.model EXCEPT !.id = @ + 1]

\* LLMModel.get_model
get_model(self) == self.model

\* faulty variant: the credential is stored and the client is not rebuilt
update_api_key_no_rebuild(self, api_key, id, raises) ==
    [err |-> OK, self |-> [self EXCEPT !.api_key = api_key]]

\* LLMModel.update_api_key: the object after the call, and the error raised
update_api_key(self, api_key, id, raises) ==
    LET stored == [self EXCEPT !.api_key = api_key]
        r == _initialize_model(stored.model_type, stored.config, stored.api_key,
                               id, raises)
    IN  IF r.err = OK
        THEN [err |-> OK, self |-> [stored EXCEPT !.model = r.model]]
        ELSE [err |-> r.err, self |-> stored]

(***************************************************************************)
(* LLMModel.process_response.                                              *)
(***************************************************************************)
IsSurrogate(c) == c >= 55296 /\ c <= 57343

\* faulty variant: errors='surrogatepass', a surrogate encoded as 3 bytes
EncodeChar_surrogatepass(c) ==
    IF c < 128 THEN <<c>>
    ELSE IF c < 2048 THEN <<192 + (c \div 64), 128 + (c % 64)>>
    ELSE IF c < 65536
         THEN <<224 + (c \div 4096), 128 + ((c \div 64) % 64), 128 + (c % 64)>>
    ELSE <<240 + (c \div 262144), 128 + ((c \div 4096) % 64),
           128 + ((c \div 64) % 64), 128 + (c % 64)>>

\* one code point under str.encode('utf-8', errors='replace')
EncodeChar(c) ==
    IF c < 128 THEN <<c>>
    ELSE IF c < 2048 THEN <<192 + (c \div 64), 128 + (c % 64)>>
    ELSE IF IsSurrogate(c) THEN <<QUESTION_MARK>>
    ELSE IF c < 65536
         THEN <<224 + (c \div 4096), 128 + ((c \div 64) % 64), 128 + (c % 64)>>
    ELSE <<240 + (c \div 262144), 128 + ((c \div 4096) % 64),
           128 + ((c \div 64) % 64), 128 + (c % 64)>>

RECURSIVE encode(_)
encode(text) ==
    IF text = <<>> THEN <<>>
    ELSE EncodeChar(Head(text)) \o encode(Tail(text))

\* length of the UTF-8 sequence a lead byte starts, 0 for an invalid lead byte
SeqLen(b0) ==
    IF b0 < 128 THEN 1
    ELSE IF b0 >= 194 /\ b0 <= 223 THEN 2
    ELSE IF b0 >= 224 /\ b0 <= 239 THEN 3
    ELSE IF b0 >= 240 /\ b0 <= 244 THEN 4
    ELSE 0

CodePoint(b, i, n) ==
    IF n = 1 THEN b[i]
    ELSE IF n = 2 THEN (b[i] - 192) * 64 + (b[i + 1] - 128)
    ELSE IF n = 3 THEN (b[i] - 224) * 4096 + (b[i + 1] - 128) * 64 + (b[i + 2] - 128)
    ELSE (b[i] - 240) * 262144 + (b[i + 1] - 128) * 4096
         + (b[i + 2] - 128) * 64 + (b[i + 3] - 128)

\* smallest code point that needs n bytes
MinCodePoint(n) ==
    IF n = 1 THEN 0 ELSE IF n = 2 THEN 128 ELSE IF n = 3 THEN 2048 ELSE 65536

\* bytes.decode('utf-8') from position i: strict, raises UnicodeDecodeError
RECURSIVE DecodeFrom(_, _)
DecodeFrom(b, i) ==
    IF i > Len(b) THEN [err |-> OK, text |-> <<>>]
    ELSE LET n == SeqLen(b[i])
         IN  IF \/ n = 0
                \/ i + n - 1 > Len(b)
                \/ \E k \in 1..(n - 1) : b[i + k] < 128 \/ b[i + k] > 191
             THEN [err |-> "UnicodeDecodeError", text |-> <<>>]
             ELSE LET c == CodePoint(b, i, n)
                  IN  IF c < MinCodePoint(n) \/ IsSurrogate(c) \/ c > 1114111
                      THEN [err |-> "UnicodeDecodeError", text |-> <<>>]
                      ELSE LET rest == DecodeFrom(b, i + n)
                           IN  IF rest.err # OK THEN rest
                               ELSE [err |-> OK, text |-> <<c>> \o rest.text]

decode(b) == DecodeFrom(b, 1)

\* faulty variant: str.replace(old, new, 1), the first occurrence only
replace_first(text, old, new) ==
    IF \E i \in 1..Len(text) : text[i] = old
    THEN LET i == CHOOSE j \in 1..Len(text) :
                      /\ text[j] = old
                      /\ \A k \in 1..(j - 1) : text[k] # old
         IN  SubSeq(text, 1, i - 1) \o new \o SubSeq(text, i + 1, Len(text))
    ELSE text

\* str.replace(old, new) for a one-character old
RECURSIVE replace(_, _, _)
replace(text, old, new) ==
    IF text = <<>> THEN <<>>
    ELSE (IF Head(text) = old THEN new ELSE <<Head(text)>>)
         \o replace(Tail(text), old, new)

\* faulty variant: the second literal is "-" instead of the EM DASH
process_response_wrong_literal(response_content) ==
    LET d == decode(encode(response_content))
    IN  IF d.err # OK THEN d
        ELSE [err |-> OK,
              text |-> replace(replace(d.text, EN_DASH, <<HYPHEN>>),
                               HYPHEN, <<HYPHEN, HYPHEN>>)]

\* the text returned, or the error raised
process_response(response_content) ==
    LET d == decode(encode(response_content))
    IN  IF d.err # OK THEN d
        ELSE [err |-> OK,
              text |-> replace(replace(d.text, EN_DASH, <<HYPHEN>>),
                               EM_DASH, <<HYPHEN, HYPHEN>>)]

(***************************************************************************)
(* The caller's view of the most recent call.                              *)
(***************************************************************************)
NoCall ==
    [op |-> "", model_type |-> "", api_key |-> None, text |-> <<>>,
     err |-> OK, resolved |-> FALSE, ret_model |-> NoModel, ret_text |-> <<>>,
     pre |-> NoAdapter, pre_allocated |-> 0]

Init ==
    /\ LLM_CONFIG = SettingsConfig
    /\ adapter = NoAdapter
    /\ allocated = 0
    /\ response \in Texts(SampleLen)
    /\ last = NoCall

\* adapter = LLMModel(model_type, api_key): on an exception the caller's
\* variable keeps what it held
Construct(model_type, api_key, raises) ==
    /\ allocated < MaxHandles
    /\ LET r == __init__(LLM_CONFIG, model_type, api_key, allocated + 1, raises)
       IN  /\ adapter' = IF r.err = OK THEN r.self ELSE adapter
           /\ allocated' = IF r.err = OK THEN allocated + 1 ELSE allocated
           /\ last' = [NoCall EXCEPT !.op = "__init__", !.model_type = model_type,
                                     !.api_key = api_key, !.err = r.err,
                                     !.resolved = r.resolved,
                                     !.pre = adapter, !.pre_allocated = allocated]
    /\ UNCHANGED <<LLM_CONFIG, response>>

\* adapter.get_model()
GetClient ==
    /\ adapter.exists
    /\ last' = [NoCall EXCEPT !.op = "get_model", !.ret_model = get_model(adapter),
                              !.pre = adapter, !.pre_allocated = allocated]
    /\ UNCHANGED <<LLM_CONFIG, adapter, allocated, response>>

\* adapter.update_api_key(api_key)
UpdateCredential(api_key, raises) ==
    /\ adapter.exists
    /\ allocated < MaxHandles
    /\ LET r == update_api_key(adapter, api_key, allocated + 1, raises)
       IN  /\ adapter' = r.self
           /\ allocated' = IF r.err = OK THEN allocated + 1 ELSE allocated
           /\ last' = [NoCall EXCEPT !.op = "update_api_key", !.api_key = api_key,
                                     !.err = r.err,
                                     !.pre = adapter, !.pre_allocated = allocated]
    /\ UNCHANGED <<LLM_CONFIG, response>>

\* response = adapter.process_response(response)
NormalizeResponseText ==
    /\ adapter.exists
    /\ LET r == process_response(response)
       IN  /\ response' = IF r.err = OK THEN r.text ELSE response
           /\ last' = [NoCall EXCEPT !.op = "process_response", !.text = response,
                                     !.err = r.err, !.ret_text = r.text,
                                     !.pre = adapter, !.pre_allocated = allocated]
    /\ UNCHANGED <<LLM_CONFIG, adapter, allocated>>

(***************************************************************************)
(* Spec: the adapter under the shipped LLM_CONFIG, with collaborator       *)
(* constructors that return a client as their interface says.              *)
(***************************************************************************)
Next ==
    \/ \E m \in ModelTypes, k \in Credentials : Construct(m, k, FALSE)
    \/ GetClient
    \/ \E k \in Keys : UpdateCredential(k, FALSE)
    \/ NormalizeResponseText

Spec == Init /\ [][Next]_vars

(***************************************************************************)
(* SpecText: process_response on every text of at most MaxLen characters,  *)
(* applied again to what it returned, on an adapter built for "gpt4".      *)
(***************************************************************************)
InitText ==
    /\ LLM_CONFIG = SettingsConfig
    /\ adapter = __init__(SettingsConfig, "gpt4", "key1", 1, FALSE).self
    /\ allocated = 1
    /\ response \in Texts(MaxLen)
    /\ last = NoCall

NextText == NormalizeResponseText

SpecText == InitText /\ [][NextText]_vars

(***************************************************************************)
(* SpecInjected: the adapter under every LLM_CONFIG table a deployment     *)
(* may inject.                                                             *)
(***************************************************************************)
InitInjected ==
    /\ LLM_CONFIG \in InjectedConfigs
    /\ adapter = NoAdapter
    /\ allocated = 0
    /\ response = <<>>
    /\ last = NoCall

SpecInjected == InitInjected /\ [][Next]_vars

(***************************************************************************)
(* SpecFault: the shipped LLM_CONFIG, with collaborator constructors that  *)
(* may raise instead of returning a client.                                *)
(***************************************************************************)
NextFault ==
    \/ \E m \in ModelTypes, k \in Credentials, raises \in BOOLEAN :
          Construct(m, k, raises)
    \/ GetClient
    \/ \E k \in Keys, raises \in BOOLEAN : UpdateCredential(k, raises)
    \/ NormalizeResponseText

InitFault ==
    /\ LLM_CONFIG = SettingsConfig
    /\ adapter = NoAdapter
    /\ allocated = 0
    /\ response = <<>>
    /\ last = NoCall

SpecFault == InitFault /\ [][NextFault]_vars

(***************************************************************************)
(* Properties.                                                             *)
(***************************************************************************)
\* the error _initialize_model raises for a model type it has no branch for
UnsupportedProviderError == "ValueError"

\* number of positions of a text that hold a character of the set S
Count(text, S) == Cardinality({i \in 1..Len(text) : text[i] \in S})

Surrogates == {c \in Alphabet : IsSurrogate(c)}

\* C1: a Construct whose providerId is no key of LLM_CONFIG fails with
\* UnsupportedProviderError and with no other error, and builds neither an
\* adapter nor a client.
C1_UnknownProviderRaisesUnsupportedProviderError ==
    (last.op = "__init__" /\ last.model_type \notin DOMAIN LLM_CONFIG)
        => /\ last.err = UnsupportedProviderError
           /\ adapter = last.pre
           /\ allocated = last.pre_allocated

\* C2: a Construct for "gpt4" or "claude", with any credential or none,
\* succeeds, and get_model then gives a client of that provider's class, new,
\* with the model name, temperature and max_tokens of LLM_CONFIG[providerId],
\* the credential given and a timeout of 600 seconds.
C2_ConstructBuildsConfiguredClient ==
    (last.op = "__init__" /\ last.model_type \in {"gpt4", "claude"})
        => /\ last.err = OK
           /\ adapter.exists
           /\ adapter.model_type = last.model_type
           /\ LET h == get_model(adapter)
                  c == LLM_CONFIG[last.model_type]
              IN  /\ h.model_name = c.model_name
                  /\ h.temperature = c.temperature
                  /\ h.max_tokens = c.max_tokens
                  /\ h.api_key = last.api_key
                  /\ h.timeout = 600
                  /\ h.class = (IF last.model_type = "gpt4"
                                THEN "ChatOpenAI" ELSE "ChatAnthropic")
                  /\ h.id > last.pre_allocated

C2_Witness ==
    /\ last.op = "__init__"
    /\ last.model_type = "claude"
    /\ last.api_key = None
    /\ last.err = OK
    /\ get_model(adapter).class = "ChatAnthropic"
    /\ get_model(adapter).model_name = "claude-model-name"

\* C3: after every update_api_key(newCred), get_model gives a client built
\* with newCred that is another object than the one held before the call,
\* also when newCred is the old credential; model_type and the client's
\* class, model name, temperature, max_tokens and timeout are as before.
C3_UpdateRebuildsClientWithNewCredential ==
    (last.op = "update_api_key")
        => /\ last.err = OK
           /\ adapter.exists
           /\ adapter.api_key = last.api_key
           /\ adapter.model_type = last.pre.model_type
           /\ adapter.config = last.pre.config
           /\ LET h == get_model(adapter)
                  old == get_model(last.pre)
              IN  /\ h.api_key = last.api_key
                  /\ h.id # old.id
                  /\ h.id > last.pre_allocated
                  /\ h.class = old.class
                  /\ h.model_name = old.model_name
                  /\ h.temperature = old.temperature
                  /\ h.max_tokens = old.max_tokens
                  /\ h.timeout = old.timeout

\* a third successive rebuild, with the credential the adapter already had
C3_Witness ==
    /\ last.op = "update_api_key"
    /\ last.err = OK
    /\ last.pre.api_key = last.api_key
    /\ get_model(last.pre).id >= 2
    /\ get_model(adapter).id = get_model(last.pre).id + 1
    /\ get_model(adapter).api_key = last.api_key

\* C4: whenever the caller holds an adapter, after calls that returned or
\* raised, its client was built for the adapter's stored credential, its
\* model_type and its config record, and the config record is the one
\* LLM_CONFIG has for model_type.
C4_ClientConsistentWithCredential ==
    adapter.exists
        => /\ adapter.model.api_key = adapter.api_key
           /\ adapter.model_type \in DOMAIN LLM_CONFIG
           /\ adapter.config = LLM_CONFIG[adapter.model_type]
           /\ adapter.model.model_name = adapter.config.model_name
           /\ adapter.model.temperature = adapter.config.temperature
           /\ adapter.model.max_tokens = adapter.config.max_tokens
           /\ adapter.model.class = (IF adapter.model_type = "gpt4"
                                     THEN "ChatOpenAI" ELSE "ChatAnthropic")
           /\ adapter.model.id \in 1..allocated

\* C5: process_response applied to what process_response returned returns
\* the same text.
C5_ProcessResponseIdempotent ==
    (last.op = "process_response")
        => /\ last.err = OK
           /\ process_response(last.ret_text) = [err |-> OK, text |-> last.ret_text]

\* the call changed a text that holds both dashes and a lone surrogate
C5_Witness ==
    /\ last.op = "process_response"
    /\ last.err = OK
    /\ Count(last.text, {EN_DASH}) > 0
    /\ Count(last.text, {EM_DASH}) > 0
    /\ Count(last.text, Surrogates) > 0
    /\ last.ret_text # last.text

\* C6: the text process_response returns holds no EN DASH and no EM DASH; it
\* is the input with each EN DASH replaced by "-" and each EM DASH by "--",
\* in place and in order, and every other encodable character kept.
C6_DashesReplacedInPlace ==
    (last.op = "process_response")
        => LET t == last.text
               image(c) == IF c = EN_DASH THEN <<HYPHEN>>
                           ELSE IF c = EM_DASH THEN <<HYPHEN, HYPHEN>>
                           ELSE IF IsSurrogate(c) THEN <<QUESTION_MARK>>
                           ELSE <<c>>
               expected[i \in 0..Len(t)] ==
                   IF i = 0 THEN <<>> ELSE expected[i - 1] \o image(t[i])
           IN  /\ last.ret_text = expected[Len(t)]
               /\ Count(last.ret_text, {EN_DASH, EM_DASH}) = 0

\* an accented character, an EN DASH and an EM DASH, as in "cafe - 2024 -- test"
C6_Witness ==
    /\ last.op = "process_response"
    /\ last.text = <<233, EN_DASH, EM_DASH>>
    /\ last.ret_text = <<233, HYPHEN, HYPHEN, HYPHEN>>

\* C7: process_response raises on no text: for a text with characters that
\* have no UTF-8 encoding it returns a text without them, with one "?" more
\* for each of them.
C7_ProcessResponseNeverRaises ==
    (last.op = "process_response")
        => /\ last.err = OK
           /\ Count(last.ret_text, Surrogates) = 0
           /\ Count(last.ret_text, {QUESTION_MARK})
                = Count(last.text, {QUESTION_MARK}) + Count(last.text, Surrogates)
           /\ response = last.ret_text

C7_Witness ==
    /\ last.op = "process_response"
    /\ last.err = OK
    /\ Count(last.text, Surrogates) = 2
    /\ Count(last.text, {QUESTION_MARK}) = 0
    /\ Count(last.ret_text, {QUESTION_MARK}) = 2

\* C8: get_model and process_response raise nothing and change none of the
\* adapter's model_type, config, api_key and model, nor LLM_CONFIG, and build
\* no client; get_model returns the client the adapter holds, so that a second
\* get_model right after it returns the same client.
C8_ReadOnlyOperationsLeaveAdapterUnchanged ==
    /\ [](last.op \in {"get_model", "process_response"}
            => /\ last.err = OK
               /\ adapter = last.pre
               /\ allocated = last.pre_allocated
               /\ (last.op = "get_model" => last.ret_model = adapter.model))
    /\ [][/\ (last'.op \in {"get_model", "process_response"}
                => /\ adapter' = adapter
                   /\ allocated' = allocated
                   /\ LLM_CONFIG' = LLM_CONFIG)
          /\ (last.op = "get_model" /\ last'.op = "get_model"
                => last'.ret_model = last.ret_model)]_vars

\* get_model returned the client of an adapter whose credential was updated
C8_Witness ==
    /\ last.op = "get_model"
    /\ last.ret_model.id >= 2
    /\ last.ret_model.api_key = "key2"
    /\ last.ret_model = adapter.model

\* C9: an update_api_key whose rebuild raises leaves the stored credential
\* and the held client as they were before the call.
C9_FailedUpdateLeavesAdapterUnchanged ==
    (last.op = "update_api_key" /\ last.err # OK)
        => /\ adapter.api_key = last.pre.api_key
           /\ adapter.model = last.pre.model

\* C10 as stated: for every LLM_CONFIG table, __init__ finds a config record
\* for a model type exactly when _initialize_model has a branch for it, and
\* no Construct fails once the config record has been found.
C10_LookupAndDispatchCoincide ==
    (last.op = "__init__")
        => /\ last.resolved
                <=> (_initialize_model(last.model_type, NoConfig, None, 0, FALSE).err
                        # UnsupportedProviderError)
           /\ last.resolved => last.err = OK

\* C10 as amended: the same, for the LLM_CONFIG tables whose keys are exactly
\* "gpt4" and "claude".
C10_LookupAndDispatchCoincideForShippedKeys ==
    (DOMAIN LLM_CONFIG = {"gpt4", "claude"})
        => C10_LookupAndDispatchCoincide

C10_Witness ==
    /\ DOMAIN LLM_CONFIG = {"gpt4", "claude"}
    /\ last.op = "__init__"
    /\ last.model_type = "claude"
    /\ last.resolved
    /\ last.err = OK
    /\ adapter.model.class = "ChatAnthropic"

====
